---- MODULE Spec2Model ----
(***************************************************************************)
(* Model of the metrics collector (scripts/collect_metrics.py) and of the  *)
(* data preparation of the dashboard renderer                              *)
(* (scripts/generate_dashboard.py).                                        *)
(*                                                                         *)
(* Instants are minutes since 1970-01-01 00:00.  A dict whose iteration    *)
(* order matters is a sequence of entries with distinct keys, in insertion *)
(* order; a dict that is only read by key is a function.  A repository's   *)
(* full identifier "owner/name" is the sequence of its path segments.      *)
(***************************************************************************)
EXTENDS Integers, Sequences, FiniteSets, TLC

\* ---------------------------------------------------------------- bounds
MaxTrack == 2      \* entries of an explicit REPOS_TO_TRACK list
MaxFaults == 1     \* remote API failures injected in one run
MaxTicks == 1      \* times the wall clock advances during one run
NBig == 11         \* repositories of the large account
MaxLangs == 7      \* languages of a rendered snapshot
MaxBytes == 2      \* byte count of one language of a rendered snapshot
MaxDates == 92     \* date keys of a rendered snapshot
MaxRuns == 3       \* runs of the collector, one after the other

\* ------------------------------------------------------ program constants
DayLen == 1440     \* minutes of one timedelta(days=1)
DailyDays == 90    \* days=90 passed to get_daily_stats
TopN == 10         \* [:10] cut of top_repos
ChartDays == 90    \* [-90:] cut of the chart dates
TopLangs == 6      \* [:6] cut of sorted_langs

\* ------------------------------------------------------------- utilities
Min2(a, b) == IF a <= b THEN a ELSE b

Max2(a, b) == IF a >= b THEN a ELSE b

Range(s) == {s[i] : i \in 1..Len(s)}

RECURSIVE SumSeq(_)
SumSeq(s) == IF s = <<>> THEN 0 ELSE s[1] + SumSeq(Tail(s))

\* ------------------------------------------------- datetime and strftime
\* datetime.replace(hour=0, minute=0, second=0, microsecond=0)
DayStart(t) == (t \div DayLen) * DayLen

\* the proleptic Gregorian date <<year, month, day>> of a day number
CivilFromDays(z0) ==
    LET z   == z0 + 719468
        era == z \div 146097
        doe == z - era * 146097
        yoe == (doe - (doe \div 1460) + (doe \div 36524) - (doe \div 146096)) \div 365
        doy == doe - (365 * yoe + (yoe \div 4) - (yoe \div 100))
        mp  == (5 * doy + 2) \div 153
        d   == doy - ((153 * mp + 2) \div 5) + 1
        m   == IF mp < 10 THEN mp + 3 ELSE mp - 9
        y   == yoe + era * 400 + (IF m <= 2 THEN 1 ELSE 0)
    IN  <<y, m, d>>

\* character codes: '0'..'9' are 48..57, '-' is 45
Digit(n) == 48 + n

Pad2(n) == <<Digit(n \div 10), Digit(n % 10)>>

Pad4(n) == <<Digit(n \div 1000), Digit((n \div 100) % 10),
             Digit((n \div 10) % 10), Digit(n % 10)>>

\* datetime.strftime('%Y-%m-%d'): a string is the sequence of its codes
StrfDate(t) ==
    LET c == CivilFromDays(t \div DayLen)
    IN  Pad4(c[1]) \o <<45>> \o Pad2(c[2]) \o <<45>> \o Pad2(c[3])

\* Python's str comparison: a < b
RECURSIVE StrLess(_, _)
StrLess(a, b) ==
    IF b = <<>> THEN FALSE
    ELSE IF a = <<>> THEN TRUE
    ELSE IF a[1] # b[1] THEN a[1] < b[1]
    ELSE StrLess(Tail(a), Tail(b))

\* ------------------------------------------------------ the remote side
\* The day all modelled runs start on: 2026-01-01.
BaseDay == 56 * 365 + 14

Base == BaseDay * DayLen

Author == "djok"

Commit(ts, who, a, d, f, st) ==
    [ts |-> ts, author |-> who, additions |-> a, deletions |-> d,
     files |-> f, hasStats |-> st]

BigNames == <<"r01", "r02", "r03", "r04", "r05", "r06", "r07", "r08",
              "r09", "r10", "r11", "r12", "r13", "r14">>

BigIndex(nm) == CHOOSE i \in 1..Len(BigNames) : BigNames[i] = nm

\* year-period additions of the i-th repository of the large account
BigAdditions(i) == ((i * 7) % 5) + 1

\* The commits of a repository, newest first, as repo.get_commits lists them.
RemoteCommits(full_name) ==
    IF full_name = <<"o", "act">> THEN
        << Commit(Base - 1, Author, 3, 1, 2, TRUE),
           Commit(Base - DayLen - 1, Author, 2, 0, 1, TRUE) >>
    ELSE IF full_name = <<"o", "idle">> THEN
        << Commit(Base - 1, "other", 7, 7, 7, TRUE) >>
    ELSE IF full_name = <<"o", "old">> THEN
        << Commit(Base - 200 * DayLen, Author, 5, 2, 0, TRUE) >>
    ELSE IF full_name = <<"g", "anc">> THEN
        << Commit(Base - 400 * DayLen, Author, 9, 9, 1, TRUE) >>
    ELSE IF full_name[1] = "b" THEN
        << Commit(Base - (BigIndex(full_name[2]) + 2) * DayLen, Author,
                  BigAdditions(BigIndex(full_name[2])), 1, 1, TRUE) >>
    ELSE << >>

\* The languages of a repository, as repo.get_languages reports them.
RemoteLanguages(full_name) ==
    IF full_name = <<"o", "act">> THEN
        << [name |-> "Python", bytes |-> 3], [name |-> "Go", bytes |-> 1] >>
    ELSE IF full_name = <<"o", "idle">> THEN
        << [name |-> "Shell", bytes |-> 2], [name |-> "Python", bytes |-> 1] >>
    ELSE IF full_name = <<"g", "anc">> THEN
        << [name |-> "Go", bytes |-> 2] >>
    ELSE IF full_name[1] = "b" THEN
        << [name |-> "Python", bytes |-> 1] >>
    ELSE << >>

\* Whether the remote commit listing returns a commit stamped exactly `until`:
\* the code does not decide it, the remote side does.
VARIABLE untilInclusive

\* repo.get_commits(author=author, since=since, until=until)
QueryCommits(full_name, who, since, until) ==
    SelectSeq(RemoteCommits(full_name),
              LAMBDA c : /\ c.author = who
                         /\ since <= c.ts
                         /\ IF untilInclusive THEN c.ts <= until ELSE c.ts < until)

\* ------------------------------------------------------ get_commit_stats
ZeroStats == [commits |-> 0, additions |-> 0, deletions |-> 0, files_changed |-> 0]

StatKeys == {"commits", "additions", "deletions", "files_changed"}

\* A remote failure inside one get_commit_stats call: the exception is raised
\* after k commits were fully processed, by the commit listing ("query"), by
\* the read of commit.stats or by the read of commit.files of commit k+1.
NoFault == [k |-> 0, stage |-> "none"]

CommitFaults(n) ==
    {[k |-> k, stage |-> "query"] : k \in 0..(n - 1)}
    \cup {[k |-> k, stage |-> st] : k \in 0..(n - 1), st \in {"stats", "files"}}

\* the body of `for commit in commits`, cut short by an exception at `stage`
ProcessCommit(stats, commit, stage) ==
    LET s1 == [stats EXCEPT !.commits = @ + 1]
        s2 == IF commit.hasStats
              THEN [s1 EXCEPT !.additions = @ + commit.additions,
                              !.deletions = @ + commit.deletions]
              ELSE s1
        s3 == IF commit.files > 0
              THEN [s2 EXCEPT !.files_changed = @ + commit.files]
              ELSE s2
    IN  IF stage = "stats" THEN s1
        ELSE IF stage = "files" THEN s2
        ELSE s3

RECURSIVE AccumulateFrom(_, _, _, _)
AccumulateFrom(commits, i, stats, fault) ==
    IF fault.stage = "query" /\ fault.k = i - 1 THEN stats
    ELSE IF i > Len(commits) THEN stats
    ELSE IF fault.stage \in {"stats", "files"} /\ fault.k = i - 1
         THEN ProcessCommit(stats, commits[i], fault.stage)
    ELSE AccumulateFrom(commits, i + 1,
                        ProcessCommit(stats, commits[i], "none"), fault)

\* get_commit_stats without its try/except: a failure propagates
get_commit_stats_unguarded(commits, fault) ==
    [raised |-> fault.stage # "none",
     stats  |-> AccumulateFrom(commits, 1, ZeroStats, fault)]

\* get_commit_stats over the commits the query matches; `except Exception:
\* pass` swallows whatever was raised, and the stats so far are returned
get_commit_stats(commits, fault) ==
    [raised |-> FALSE,
     stats  |-> AccumulateFrom(commits, 1, ZeroStats, fault)]

\* ------------------------------------------------------- get_daily_stats
\* day_start of offset i, for the clock reading `t`
DayStartOf(t, i) == DayStart(t - i * DayLen)

\* the offsets whose day window matches at least one commit
BusyOffsets(full_name, who, t, days) ==
    {i \in 0..days :
        QueryCommits(full_name, who, DayStartOf(t, i),
                     DayStartOf(t, i) + DayLen) # <<>>}

\* get_daily_stats: one entry per offset days, days-1, ..., 0; `faults` gives
\* the failure of the call of each offset
get_daily_stats(full_name, who, t, days, faults) ==
    [j \in 1..(days + 1) |->
        LET i         == days - j + 1
            day_start == DayStartOf(t, i)
            day_end   == day_start + DayLen
            stats     == get_commit_stats(
                             QueryCommits(full_name, who, day_start, day_end),
                             faults[i]).stats
        IN  [date |-> StrfDate(day_start), commits |-> stats.commits,
             additions |-> stats.additions, deletions |-> stats.deletions,
             files_changed |-> stats.files_changed]] \o << >>

\* ---------------------------------------------------- get_language_stats
get_language_stats(full_name, failed) ==
    IF failed THEN << >> ELSE RemoteLanguages(full_name)

\* ------------------------------------------------------------ the periods
PeriodNames == <<"today", "week", "month", "quarter", "year">>

PeriodSet == Range(PeriodNames)

\* "today" as the current calendar day only
TodaySinceStrict(t) == DayStart(t)

\* line 119: (now - timedelta(days=1)).replace(hour=0, ...)
TodaySince(t) == DayStart(t - DayLen)

MakePeriods(t) ==
    [p \in PeriodSet |->
        IF p = "today" THEN <<TodaySince(t), t>>
        ELSE IF p = "week" THEN <<t - 7 * DayLen, t>>
        ELSE IF p = "month" THEN <<t - 30 * DayLen, t>>
        ELSE IF p = "quarter" THEN <<t - 90 * DayLen, t>>
        ELSE <<t - 365 * DayLen, t>>]

\* ------------------------------------------------------------ dict helpers
Keys(d) == {d[i].key : i \in 1..Len(d)}

IndexOf(d, k) == CHOOSE i \in 1..Len(d) : d[i].key = k

\* d[k] = v on an insertion-ordered dict
DictPut(d, k, v) ==
    IF k \in Keys(d)
    THEN [d EXCEPT ![IndexOf(d, k)] = [key |-> k, val |-> v]]
    ELSE Append(d, [key |-> k, val |-> v])

DictGet(d, k) == d[IndexOf(d, k)].val

EmptyFn == [x \in {} |-> 0]

\* ----------------------------------------------------- get_repos_to_track
\* the repositories the remote side knows
Exists(full_name) ==
    full_name \in {<<"o", "act">>, <<"o", "idle">>, <<"o", "old">>, <<"g", "anc">>}
    \/ (Len(full_name) = 2 /\ full_name[1] = "b")

\* `repo_name and '/' in repo_name`
ValidEntry(e) == e # << >> /\ Len(e) >= 2

\* the explicit branch: the entries whose g.get_repo succeeds, in list order
RECURSIVE ExplicitRepos(_, _, _)
ExplicitRepos(entries, i, failing) ==
    IF i > Len(entries) THEN << >>
    ELSE IF ValidEntry(entries[i]) /\ Exists(entries[i]) /\ i \notin failing
         THEN <<entries[i]>> \o ExplicitRepos(entries, i + 1, failing)
    ELSE ExplicitRepos(entries, i + 1, failing)

\* auth_user.get_repos(affiliation=...) of the two modelled accounts
AuthListing(acct) ==
    IF acct = "big" THEN [i \in 1..NBig |-> <<"b", BigNames[i]>>]
    ELSE << <<"o", "act">>, <<"o", "idle">>, <<"o", "old">> >>

\* org.get_repos() of every org of user.get_orgs(), concatenated
OrgListing(acct) ==
    IF acct = "big" THEN << >>
    ELSE << <<"g", "anc">>, <<"o", "act">> >>

\* the listing appended without the `not in seen` test
AppendAll(repos, listing) == repos \o listing

\* `if repo.full_name not in seen: repos.append(repo); seen.add(...)`
RECURSIVE AppendUnseen(_, _)
AppendUnseen(repos, listing) ==
    IF listing = << >> THEN repos
    ELSE AppendUnseen(IF listing[1] \in Range(repos) THEN repos
                      ELSE Append(repos, listing[1]),
                      Tail(listing))

\* the discovery branch: each listing yields its first ka / ko items before
\* it raises (all of them when it does not raise)
DiscoverRepos(acct, ka, ko) ==
    AppendUnseen(AppendUnseen(<< >>, SubSeq(AuthListing(acct), 1, ka)),
                 SubSeq(OrgListing(acct), 1, ko))

\* --------------------------------------------------- collect_all_metrics
InitialResults(t, username) ==
    [meta      |-> [updated_at |-> t, username |-> username],
     summary   |-> [p \in PeriodSet |-> ZeroStats],
     repos     |-> << >>,
     daily     |-> EmptyFn,
     languages |-> << >>,
     top_repos |-> << >>]

AddStats(a, b) ==
    [commits       |-> a.commits + b.commits,
     additions     |-> a.additions + b.additions,
     deletions     |-> a.deletions + b.deletions,
     files_changed |-> a.files_changed + b.files_changed]

ZeroBucket == [commits |-> 0, additions |-> 0, deletions |-> 0]

\* results['daily'][date][...] += day[...], for every entry of `entries`;
\* the defaultdict creates a zero bucket for a date it has not seen
AddDay(bucket, day) ==
    [commits   |-> bucket.commits + day.commits,
     additions |-> bucket.additions + day.additions,
     deletions |-> bucket.deletions + day.deletions]

\* the fold of entries lo..hi, in order (split in halves, the left half
\* evaluated before the right one, to keep the evaluation shallow)
RECURSIVE FoldDaily(_, _, _, _)
FoldDaily(daily, entries, lo, hi) ==
    IF lo > hi THEN daily
    ELSE IF lo = hi
         THEN IF entries[lo].date \in DOMAIN daily
              THEN [daily EXCEPT ![entries[lo].date] = AddDay(@, entries[lo])]
              ELSE daily @@ (entries[lo].date :> AddDay(ZeroBucket, entries[lo]))
    ELSE LET mid == (lo + hi) \div 2
         IN  CHOOSE folded \in {FoldDaily(left, entries, mid + 1, hi) :
                                   left \in {FoldDaily(daily, entries, lo, mid)}} : TRUE

\* results['languages'][lang] += bytes_count, for every reported pair
RECURSIVE FoldLanguages(_, _)
FoldLanguages(languages, reported) ==
    IF reported = << >> THEN languages
    ELSE LET l   == reported[1]
             old == IF l.name \in Keys(languages) THEN DictGet(languages, l.name) ELSE 0
         IN  FoldLanguages(DictPut(languages, l.name, old + l.bytes), Tail(reported))

\* the insertion of an unstable descending sort: an element goes in front of
\* the elements whose key equals its own
InsertDescBeforeEqual(sorted, e, key) ==
    LET n == Cardinality({i \in 1..Len(sorted) : sorted[i][key] > e[key]})
    IN  SubSeq(sorted, 1, n) \o <<e>> \o SubSeq(sorted, n + 1, Len(sorted))

\* sorted(s, key=lambda x: x[key], reverse=True): stable, so an element goes
\* behind every element whose key is at least its own
InsertDesc(sorted, e, key) ==
    LET n == Cardinality({i \in 1..Len(sorted) : sorted[i][key] >= e[key]})
    IN  SubSeq(sorted, 1, n) \o <<e>> \o SubSeq(sorted, n + 1, Len(sorted))

RECURSIVE SortedDesc(_, _)
SortedDesc(s, key) ==
    IF s = << >> THEN << >>
    ELSE InsertDesc(SortedDesc(SubSeq(s, 1, Len(s) - 1), key), s[Len(s)], key)

\* s[:n]
FirstN(s, n) == SubSeq(s, 1, Min2(n, Len(s)))

TopEntry(data) ==
    [name      |-> data.full_name,
     commits   |-> data.periods["year"].commits,
     additions |-> data.periods["year"].additions,
     deletions |-> data.periods["year"].deletions]

\* the list comprehension of top_repos: one entry per repository of the
\* detail mapping with year commits > 0, in the mapping's order
RECURSIVE YearEntries(_)
YearEntries(repos) ==
    IF repos = << >> THEN << >>
    ELSE (IF repos[1].val.periods["year"].commits > 0
          THEN <<TopEntry(repos[1].val)>> ELSE << >>)
         \o YearEntries(Tail(repos))

\* s reversed
Reversed(s) == [i \in 1..Len(s) |-> s[Len(s) + 1 - i]]

\* the ranking with `reverse=True` forgotten
TopReposAscending(repos) ==
    FirstN(Reversed(SortedDesc(YearEntries(repos), "additions")), TopN)

\* lines 192-206
TopRepos(repos) == FirstN(SortedDesc(YearEntries(repos), "additions"), TopN)

\* the detail record stored without the `if has_activity` guard
StoreRepoAlways(detail, active, data) == DictPut(detail, data.full_name, data)

\* `if has_activity: results['repos'][repo.full_name] = repo_data`
StoreRepo(detail, active, data) ==
    IF active THEN DictPut(detail, data.full_name, data) ELSE detail

\* ------------------------------------------------------------------ state
VARIABLES
    GH_TOKEN,        \* environment: "None" when unset
    GH_USERNAME,     \* environment: "None" when unset
    REPOS_TO_TRACK,  \* environment: the stripped entries of the list, << >> when empty
    account,         \* which remote account the token belongs to
    clock,           \* the wall clock, datetime.now()
    ticks,           \* how often the clock advanced
    faults,          \* remote failures still to be injected
    pc,              \* position of the collector's main
    now,             \* collect_all_metrics: now
    periods,         \* collect_all_metrics: periods
    results,         \* collect_all_metrics: results
    repos,           \* collect_all_metrics: repos
    idx,             \* index of `repo` in repos
    repo_data,       \* collect_all_metrics: repo_data
    has_activity,    \* collect_all_metrics: has_activity
    apiCalls,        \* remote calls issued so far
    files,           \* the files under data/, by name
    exitCode,        \* exit code of the process, -1 while it runs
    processed,       \* history: what each finished loop iteration saw
    calls,           \* history: the get_commit_stats calls of the last period loop
    runs,            \* history: the finished runs, [now, results] each
    series,          \* history: the get_daily_stats calls of the run
    metrics,         \* renderer: the snapshot generate_html_dashboard is given
    rpc,             \* renderer: position of generate_html_dashboard
    dates,           \* renderer: dates
    commits_data,    \* renderer: commits_data
    additions_data,  \* renderer: additions_data
    deletions_data,  \* renderer: deletions_data
    total_bytes,     \* renderer: total_bytes
    lang_data,       \* renderer: lang_data
    page             \* browser: the generated page, its tabs, figures and charts

vars == <<GH_TOKEN, GH_USERNAME, REPOS_TO_TRACK, account, untilInclusive, clock,
          ticks, faults,
          pc, now, periods, results, repos, idx, repo_data, has_activity,
          apiCalls, files, exitCode, processed, calls, runs, series, metrics, rpc,
          dates,
          commits_data, additions_data, deletions_data, total_bytes, lang_data,
          page>>

renderVars == <<metrics, rpc, dates, commits_data, additions_data,
                deletions_data, total_bytes, lang_data, page>>

collectVars == <<GH_TOKEN, GH_USERNAME, REPOS_TO_TRACK, account, untilInclusive,
                 series, clock, ticks,
                 faults, pc, now, periods, results, repos, idx, repo_data,
                 has_activity, apiCalls, files, exitCode, processed, calls, runs>>

envVars == <<GH_TOKEN, GH_USERNAME, REPOS_TO_TRACK, account, untilInclusive>>

loopVars == <<repos, idx, repo_data, has_activity>>

\* `not GH_TOKEN`
Falsy(v) == v \in {"None", ""}

TrackEntries == {<<"o", "act">>, <<"o", "idle">>, <<"o", "old">>, <<"o", "gone">>,
                 <<"x">>, << >>}

TrackLists == UNION {[1..n -> TrackEntries] : n \in 1..MaxTrack}

NowSet == {Base, Base + 23 * 60, Base + DayLen - 1}

\* no page is open in a browser
NoPage == [loaded |-> FALSE]

\* the renderer is not running
RenderIdle ==
    /\ metrics = [daily |-> << >>, languages |-> << >>]
    /\ rpc = "off"
    /\ dates = << >>
    /\ commits_data = << >>
    /\ additions_data = << >>
    /\ deletions_data = << >>
    /\ total_bytes = 0
    /\ lang_data = << >>
    /\ page = NoPage

Init ==
    /\ RenderIdle
    /\ GH_TOKEN \in {"None", "", "ghp"}
    /\ untilInclusive \in BOOLEAN
    /\ GH_USERNAME \in {"None", "", Author}
    /\ \/ /\ REPOS_TO_TRACK \in TrackLists
          /\ account = "small"
          /\ clock \in NowSet
          /\ faults = MaxFaults
       \/ /\ REPOS_TO_TRACK = << >>
          /\ account = "small"
          /\ clock \in NowSet
          /\ faults = MaxFaults
       \/ /\ REPOS_TO_TRACK = << >>
          /\ account = "big"
          /\ clock = Base + DayLen - 1
          /\ faults = 0
    /\ ticks = 0
    /\ pc = "main"
    /\ now = 0
    /\ periods = EmptyFn
    /\ results = InitialResults(0, "None")
    /\ repos = << >>
    /\ idx = 0
    /\ repo_data = [full_name |-> << >>, periods |-> EmptyFn]
    /\ has_activity = FALSE
    /\ apiCalls = 0
    /\ files = EmptyFn
    /\ exitCode = -1
    /\ processed = << >>
    /\ calls = << >>
    /\ runs = << >>
    /\ series = << >>

\* ---------------------------------------------------------------- actions
\* time passes while the collector runs; the advance is taken right before
\* a reading of the clock (get_daily_stats line 88, main line 231)
Tick ==
    /\ pc \in {"daily", "save_history"}
    /\ ticks < MaxTicks
    /\ clock' = clock + 1
    /\ ticks' = ticks + 1
    /\ UNCHANGED <<renderVars, envVars, runs, series, faults, pc, now, periods, results, loopVars,
                   apiCalls, files, exitCode, processed, calls>>

\* the configuration check with the account identifier forgotten
ConfigOkTokenOnly == ~ Falsy(GH_TOKEN)

\* main, line 215: `if not GH_TOKEN or not GH_USERNAME`
ConfigOk == ~ (Falsy(GH_TOKEN) \/ Falsy(GH_USERNAME))

\* main, lines 211-219

Main ==
    /\ pc = "main"
    /\ IF ConfigOk
       THEN pc' = "collect" /\ UNCHANGED exitCode
       ELSE pc' = "exited" /\ exitCode' = 1
    /\ UNCHANGED <<renderVars, envVars, runs, series, clock, ticks, faults, now, periods, results,
                   loopVars, apiCalls, files, processed, calls>>

\* collect_all_metrics, lines 111-137: g.get_user(GH_USERNAME) succeeds
CollectStart ==
    /\ pc = "collect"
    /\ apiCalls' = apiCalls + 1
    /\ now' = clock
    /\ periods' = MakePeriods(clock)
    /\ results' = InitialResults(clock, GH_USERNAME)
    /\ pc' = "enumerate"
    /\ UNCHANGED <<renderVars, envVars, runs, series, clock, ticks, faults, loopVars, files, exitCode,
                   processed, calls>>

\* collect_all_metrics, line 112: g.get_user(GH_USERNAME) raises; nothing
\* catches it, the interpreter ends with a traceback and exit code 1
UserLookupFails ==
    /\ pc = "collect"
    /\ faults > 0
    /\ faults' = faults - 1
    /\ apiCalls' = apiCalls + 1
    /\ pc' = "raised"
    /\ exitCode' = 1
    /\ UNCHANGED <<renderVars, envVars, runs, series, clock, ticks, now, periods, results, loopVars,
                   files, processed, calls>>

\* get_repos_to_track, explicit branch (lines 25-34)
EnumerateExplicit ==
    /\ pc = "enumerate"
    /\ REPOS_TO_TRACK # << >>
    /\ LET valid == {i \in 1..Len(REPOS_TO_TRACK) : ValidEntry(REPOS_TO_TRACK[i])}
       IN  \E failing \in SUBSET valid :
              /\ Cardinality(failing) <= faults
              /\ faults' = faults - Cardinality(failing)
              /\ repos' = ExplicitRepos(REPOS_TO_TRACK, 1, failing)
              /\ apiCalls' = apiCalls + Cardinality(valid)
    /\ idx' = 1
    /\ pc' = "repo"
    /\ UNCHANGED <<renderVars, envVars, runs, series, clock, ticks, now, periods, results, repo_data,
                   has_activity, files, exitCode, processed, calls>>

\* get_repos_to_track, discovery branch (lines 36-59)
EnumerateDiscover ==
    /\ pc = "enumerate"
    /\ REPOS_TO_TRACK = << >>
    /\ \E ka \in 0..Len(AuthListing(account)), ko \in 0..Len(OrgListing(account)) :
          LET used == (IF ka < Len(AuthListing(account)) THEN 1 ELSE 0)
                      + (IF ko < Len(OrgListing(account)) THEN 1 ELSE 0)
          IN  /\ used <= faults
              /\ faults' = faults - used
              /\ repos' = DiscoverRepos(account, ka, ko)
    /\ apiCalls' = apiCalls + 2
    /\ idx' = 1
    /\ pc' = "repo"
    /\ UNCHANGED <<renderVars, envVars, runs, series, clock, ticks, now, periods, results, repo_data,
                   has_activity, files, exitCode, processed, calls>>

\* the head of one iteration of `for repo in repos` and its period loop
\* (lines 142-167)
CollectPeriods ==
    /\ pc = "repo"
    /\ idx <= Len(repos)
    /\ LET repo == repos[idx]
           commits(j) == QueryCommits(repo, GH_USERNAME,
                                      periods[PeriodNames[j]][1],
                                      periods[PeriodNames[j]][2])
           J == 1..Len(PeriodNames)
       IN  \E F \in SUBSET J :
              /\ Cardinality(F) <= faults
              /\ \E fa \in [F -> UNION {CommitFaults(Len(commits(j))) : j \in F}] :
                    LET fault(j) == IF j \in F THEN fa[j] ELSE NoFault
                        call == [j \in J |-> get_commit_stats(commits(j), fault(j))]
                        stats(p) == call[CHOOSE j \in J : PeriodNames[j] = p].stats
                    IN  /\ \A j \in F : fa[j] \in CommitFaults(Len(commits(j)))
                        /\ faults' = faults - Cardinality(F)
                        /\ calls' = [j \in J |-> [since   |-> periods[PeriodNames[j]][1],
                                                  until   |-> periods[PeriodNames[j]][2],
                                                  commits |-> commits(j),
                                                  fault   |-> fault(j),
                                                  result  |-> call[j]]]
                        /\ IF \E j \in J : call[j].raised
                           THEN /\ pc' = "raised"
                                /\ exitCode' = 1
                                /\ UNCHANGED <<results, repo_data, has_activity>>
                           ELSE /\ repo_data' = [full_name |-> repo,
                                                 periods |-> [p \in PeriodSet |-> stats(p)]]
                                /\ results' = [results EXCEPT !.summary =
                                                  [p \in PeriodSet |-> AddStats(@[p], stats(p))]]
                                /\ has_activity' = (\E p \in PeriodSet : stats(p).commits > 0)
                                /\ pc' = IF has_activity' THEN "daily" ELSE "langs"
                                /\ UNCHANGED exitCode
    /\ apiCalls' = apiCalls + Len(PeriodNames)
    /\ UNCHANGED <<renderVars, envVars, runs, series, clock, ticks, now, periods, repos, idx, files,
                   processed>>

\* `if has_activity:` get_daily_stats(repo, GH_USERNAME, days=90) and the
\* fold of its entries into results['daily'] (lines 170-176)
DailyStep ==
    /\ pc = "daily"
    /\ \E busy \in {BusyOffsets(repos[idx], GH_USERNAME, clock, DailyDays)} :
       \E F \in SUBSET busy :
          /\ Cardinality(F) <= faults
          /\ LET n(i) == Len(QueryCommits(repos[idx], GH_USERNAME,
                                          DayStartOf(clock, i),
                                          DayStartOf(clock, i) + DayLen))
             IN  \E fa \in [F -> UNION {CommitFaults(n(i)) : i \in F}] :
                    /\ \A i \in F : fa[i] \in CommitFaults(n(i))
                    /\ \E daily \in {get_daily_stats(repos[idx], GH_USERNAME, clock,
                                        DailyDays,
                                        [i \in 0..DailyDays |->
                                            IF i \in F THEN fa[i] ELSE NoFault])} :
                          /\ results' = [results EXCEPT !.daily =
                                            FoldDaily(@, daily, 1, Len(daily))]
                          /\ series' = Append(series,
                                           [full_name |-> repos[idx],
                                            t         |-> clock,
                                            days      |-> DailyDays,
                                            faulty    |-> F,
                                            entries   |-> daily])
          /\ faults' = faults - Cardinality(F)
    /\ apiCalls' = apiCalls + DailyDays + 1
    /\ pc' = "langs"
    /\ UNCHANGED <<renderVars, envVars, runs, clock, ticks, now, periods, loopVars, files,
                   exitCode, processed, calls>>

\* get_language_stats, the fold into results['languages'] and
\* `if has_activity: results['repos'][repo.full_name] = repo_data`
\* (lines 179-185)
LangStep ==
    /\ pc = "langs"
    /\ \E failed \in {FALSE} \cup (IF faults > 0 THEN {TRUE} ELSE {}) :
          LET languages == get_language_stats(repos[idx], failed)
          IN  /\ faults' = IF failed THEN faults - 1 ELSE faults
              /\ results' =
                    [results EXCEPT
                        !.languages = FoldLanguages(@, languages),
                        !.repos = StoreRepo(@, has_activity, repo_data)]
              /\ processed' = Append(processed,
                                  [full_name |-> repo_data.full_name,
                                   periods   |-> repo_data.periods,
                                   active    |-> has_activity,
                                   languages |-> languages])
    /\ apiCalls' = apiCalls + 1
    /\ idx' = idx + 1
    /\ pc' = "repo"
    /\ UNCHANGED <<renderVars, envVars, runs, series, clock, ticks, now, periods, repos, repo_data,
                   has_activity, files, exitCode, calls>>

\* after the loop: top_repos and `return results` (lines 188-208)
Finish ==
    /\ pc = "repo"
    /\ idx > Len(repos)
    /\ results' = [results EXCEPT !.top_repos = TopRepos(results.repos)]
    /\ pc' = "save"
    /\ UNCHANGED <<renderVars, envVars, runs, series, clock, ticks, faults, now, periods, loopVars,
                   apiCalls, files, exitCode, processed, calls>>

CanonicalFile == <<"data/metrics.json">>

HistoryFile(t) == <<"data/metrics-", StrfDate(t), ".json">>

WriteFile(fs, name, content) ==
    [f \in (DOMAIN fs) \cup {name} |-> IF f = name THEN content ELSE fs[f]]

\* main, lines 224-228: the canonical snapshot
SaveMetrics ==
    /\ pc = "save"
    /\ files' = WriteFile(files, CanonicalFile, results)
    /\ pc' = "save_history"
    /\ UNCHANGED <<renderVars, envVars, runs, series, clock, ticks, faults, now, periods, results,
                   loopVars, apiCalls, exitCode, processed, calls>>

\* main, lines 231-239: the dated copy, named by a new reading of the clock
SaveHistory ==
    /\ pc = "save_history"
    /\ files' = WriteFile(files, HistoryFile(clock), results)
    /\ pc' = "done"
    /\ exitCode' = 0
    /\ runs' = Append(runs, [now |-> now, results |-> results])
    /\ UNCHANGED <<renderVars, envVars, series, clock, ticks, faults, now, periods, results,
                   loopVars, apiCalls, processed, calls>>

Next ==
    \/ Tick
    \/ Main
    \/ CollectStart
    \/ UserLookupFails
    \/ EnumerateExplicit
    \/ EnumerateDiscover
    \/ CollectPeriods
    \/ DailyStep
    \/ LangStep
    \/ Finish
    \/ SaveMetrics
    \/ SaveHistory

Spec == Init /\ [][Next]_vars

\* ===================================================== the renderer
\* generate_html_dashboard, lines 23-37: the data the page embeds.

\* sorted(keys) on strings: the element of rank k-1 goes to position k
Ranks(keys) ==
    [i \in 1..Len(keys) |->
        Cardinality({j \in 1..Len(keys) : StrLess(keys[j], keys[i])})] \o << >>

ByRank(keys, rank) ==
    [k \in 1..Len(keys) |-> keys[CHOOSE i \in 1..Len(keys) : rank[i] = k - 1]] \o << >>

\* s[:n] written for s[-n:]
LastNFromFront(s, n) == SubSeq(s, 1, Min2(n, Len(s)))

\* s[-n:]
LastN(s, n) == SubSeq(s, Max2(1, Len(s) - n + 1), Len(s))

\* [daily.get(d, {}).get(field, 0) for d in dates]
Series(daily, ds, field) ==
    [i \in 1..Len(ds) |->
        IF ds[i] \in Keys(daily) THEN DictGet(daily, ds[i])[field] ELSE 0] \o << >>

\* sum(languages.values()) if languages else 1
TotalBytes(languages) ==
    IF languages # << >>
    THEN SumSeq([i \in 1..Len(languages) |-> languages[i].val])
    ELSE 1

\* round(n / d) to the nearest integer, ties to the even one
RoundHalfEven(n, d) ==
    LET q == n \div d
        r == n % d
    IN  IF 2 * r < d THEN q
        ELSE IF 2 * r > d THEN q + 1
        ELSE IF q % 2 = 0 THEN q ELSE q + 1

\* round(bytes / total * 100), the digits argument forgotten
PercentWhole(bytes, total) == 10 * RoundHalfEven(bytes * 100, total)

\* round(bytes / total * 100, 1), in tenths of a percent
Percent(bytes, total) == RoundHalfEven(bytes * 1000, total)

\* sorted(languages.items(), key=lambda x: x[1], reverse=True)[:6]
SortedLangs(languages) == FirstN(SortedDesc(languages, "val"), TopLangs)

LangData(languages, total) ==
    LET sorted_langs == SortedLangs(languages)
    IN  [i \in 1..Len(sorted_langs) |->
            [name    |-> sorted_langs[i].key,
             bytes   |-> sorted_langs[i].val,
             percent |-> Percent(sorted_langs[i].val, total)]]

\* ---------------------------------------------------- rendered snapshots
LangNames == <<"Python", "JavaScript", "TypeScript", "HTML", "CSS", "Shell",
               "Go", "Rust", "Java", "Ruby">>

LangInput(f) == [i \in DOMAIN f |-> [key |-> LangNames[i], val |-> f[i]]]

LangInputs == {LangInput(f) : f \in UNION {[1..n -> 0..MaxBytes] : n \in 0..MaxLangs}}

DayBucket(day) ==
    [commits |-> day % 3, additions |-> day % 5, deletions |-> day % 2]

\* a daily mapping of n dates from day `first` on, written in the given order
DailyInput(first, n, mode) ==
    [i \in 1..n |->
        LET day == IF mode = "asc" THEN first + i - 1
                   ELSE IF mode = "desc" THEN first + n - i
                   ELSE first + 2 * (i - 1)
        IN  [key |-> StrfDate(day * DayLen), val |-> DayBucket(day)]] \o << >>

DailyInputs ==
    {DailyInput(first, n, mode) :
        first \in {BaseDay - 91, BaseDay - 40},
        n \in 0..MaxDates,
        mode \in {"asc", "desc", "sparse"}}

FiveDates == DailyInput(BaseDay - 4, 5, "asc")

InitRender ==
    /\ \/ /\ metrics \in [daily : {FiveDates}, languages : LangInputs]
       \/ /\ metrics \in [daily : DailyInputs,
                          languages : {LangInput(<<2, 1>>), LangInput(<< >>)}]
    /\ rpc = "start"
    /\ dates = << >>
    /\ commits_data = << >>
    /\ additions_data = << >>
    /\ deletions_data = << >>
    /\ total_bytes = 0
    /\ lang_data = << >>
    /\ page = NoPage
    /\ GH_TOKEN = "None"
    /\ untilInclusive = TRUE
    /\ GH_USERNAME = "None"
    /\ REPOS_TO_TRACK = << >>
    /\ account = "small"
    /\ clock = Base
    /\ ticks = 0
    /\ faults = 0
    /\ pc = "off"
    /\ now = 0
    /\ periods = EmptyFn
    /\ results = InitialResults(0, "None")
    /\ repos = << >>
    /\ idx = 0
    /\ repo_data = [full_name |-> << >>, periods |-> EmptyFn]
    /\ has_activity = FALSE
    /\ apiCalls = 0
    /\ files = EmptyFn
    /\ exitCode = -1
    /\ processed = << >>
    /\ calls = << >>
    /\ runs = << >>
    /\ series = << >>

\* lines 30-33
RenderDates ==
    /\ rpc = "start"
    /\ \E keys \in {[i \in 1..Len(metrics.daily) |-> metrics.daily[i].key] \o << >>} :
       \E rank \in {Ranks(keys)} :
       \E ds \in {LastN(ByRank(keys, rank), ChartDays)} :
          /\ dates' = ds
          /\ commits_data' = Series(metrics.daily, ds, "commits")
          /\ additions_data' = Series(metrics.daily, ds, "additions")
          /\ deletions_data' = Series(metrics.daily, ds, "deletions")
    /\ rpc' = "languages"
    /\ UNCHANGED <<collectVars, page, metrics, total_bytes, lang_data>>

\* lines 35-37, the division succeeds
RenderLanguages ==
    /\ rpc = "languages"
    /\ TotalBytes(metrics.languages) # 0
    /\ total_bytes' = TotalBytes(metrics.languages)
    /\ lang_data' = LangData(metrics.languages, TotalBytes(metrics.languages))
    /\ rpc' = "html"
    /\ UNCHANGED <<collectVars, page, metrics, dates, commits_data, additions_data,
                   deletions_data>>

\* lines 35-37, `l[1]/total_bytes` divides by zero
RenderLanguagesFails ==
    /\ rpc = "languages"
    /\ TotalBytes(metrics.languages) = 0
    /\ metrics.languages # << >>
    /\ total_bytes' = 0
    /\ rpc' = "ZeroDivisionError"
    /\ UNCHANGED <<collectVars, page, metrics, dates, commits_data, additions_data,
                   deletions_data, lang_data>>

NextRender ==
    \/ RenderDates
    \/ RenderLanguages
    \/ RenderLanguagesFails

SpecRender == InitRender /\ [][NextRender]_vars

\* ------------------------------------------------------- repeated runs
\* the scheduler starts the collector again, a minute or a day after the
\* previous run ended; the new process starts from scratch, the files under
\* data/ are what the previous runs left
StartRun ==
    /\ pc = "done"
    /\ Len(runs) < MaxRuns
    /\ \E dt \in {1, DayLen} : clock' = clock + dt
    /\ ticks' = 0
    /\ pc' = "main"
    /\ now' = 0
    /\ periods' = EmptyFn
    /\ results' = InitialResults(0, "None")
    /\ repos' = << >>
    /\ idx' = 0
    /\ repo_data' = [full_name |-> << >>, periods |-> EmptyFn]
    /\ has_activity' = FALSE
    /\ apiCalls' = 0
    /\ exitCode' = -1
    /\ processed' = << >>
    /\ calls' = << >>
    /\ series' = << >>
    /\ UNCHANGED <<renderVars, envVars, runs, faults, files>>

\* successful runs only: the configuration is present and no remote call fails
InitRuns ==
    /\ RenderIdle
    /\ GH_TOKEN = "ghp"
    /\ untilInclusive \in BOOLEAN
    /\ GH_USERNAME = Author
    /\ REPOS_TO_TRACK \in {<< <<"o", "act">> >>, << <<"o", "idle">> >>}
    /\ account = "small"
    /\ clock \in {Base + 23 * 60, Base + DayLen - 1}
    /\ faults = 0
    /\ ticks = 0
    /\ pc = "main"
    /\ now = 0
    /\ periods = EmptyFn
    /\ results = InitialResults(0, "None")
    /\ repos = << >>
    /\ idx = 0
    /\ repo_data = [full_name |-> << >>, periods |-> EmptyFn]
    /\ has_activity = FALSE
    /\ apiCalls = 0
    /\ files = EmptyFn
    /\ exitCode = -1
    /\ processed = << >>
    /\ calls = << >>
    /\ runs = << >>
    /\ series = << >>

NextRuns ==
    \/ Tick
    \/ Main
    \/ CollectStart
    \/ EnumerateExplicit
    \/ CollectPeriods
    \/ DailyStep
    \/ LangStep
    \/ Finish
    \/ SaveMetrics
    \/ SaveHistory
    \/ StartRun

SpecRuns == InitRuns /\ [][NextRuns]_vars

\* ------------------------------------------------ the renderer's main
\* str(n) for an int: the decimal digits, '-' (45) in front of a negative
RECURSIVE Digits(_)
Digits(n) == IF n < 10 THEN <<Digit(n)>> ELSE Digits(n \div 10) \o <<Digit(n % 10)>>

Str(n) == IF n < 0 THEN <<45>> \o Digits(-n) ELSE Digits(n)

\* f"{n/d:.1f}": one digit behind the '.' (46), rounded to the nearest
Fixed1(n, d) ==
    LET t == RoundHalfEven(10 * n, d)
    IN  Digits(t \div 10) \o <<46>> \o <<Digit(t % 10)>>

\* format_number with the K suffix taken from 100 on
format_number_from_100(n) ==
    IF n >= 100 THEN Fixed1(n, 1000) \o <<75>> ELSE Str(n)

\* format_number (lines 15-20); 'M' is 77, 'K' is 75
format_number(n) ==
    IF n >= 1000000 THEN Fixed1(n, 1000000) \o <<77>>
    ELSE IF n >= 1000 THEN Fixed1(n, 1000) \o <<75>>
    ELSE Str(n)

\* the four cells of a period's figures: commits, '+' (43) additions,
\* '-' (45) deletions, net (lines 275-290 and 629-632)
StatCells(summary, p) ==
    << Str(summary[p].commits),
       <<43>> \o format_number(summary[p].additions),
       <<45>> \o format_number(summary[p].deletions),
       format_number(summary[p].additions - summary[p].deletions) >>

ReadmePeriods == {"today", "week", "month", "year"}

\* generate_readme (lines 617-645): the period rows and the repository rows
generate_readme(m) ==
    [rows |-> [p \in ReadmePeriods |-> StatCells(m.summary, p)],
     top  |-> FirstN(m.top_repos, TopN)]

\* what generate_html_dashboard puts into the page (lines 22-37, 275-290,
\* 398-402)
generate_html_dashboard(m) ==
    LET keys == [i \in 1..Len(m.daily) |-> m.daily[i].key]
        ds   == LastN(ByRank(keys, Ranks(keys)), ChartDays)
    IN  [stats      |-> StatCells(m.summary, "month"),
         allDates   |-> ds,
         allCommits |-> Series(m.daily, ds, "commits"),
         allAdditions |-> Series(m.daily, ds, "additions"),
         allDeletions |-> Series(m.daily, ds, "deletions"),
         periodData |-> m.summary,
         lang_data  |-> LangData(m.languages, TotalBytes(m.languages))]

HtmlFile == <<"docs/index.html">>

ReadmeFile == <<"README.md">>

\* load_metrics falling back to an empty snapshot when the file is absent
load_metrics_or_empty(fs) ==
    [raised  |-> FALSE,
     metrics |-> IF CanonicalFile \in DOMAIN fs THEN fs[CanonicalFile]
                 ELSE [summary |-> [p \in PeriodSet |-> ZeroStats], daily |-> << >>,
                       languages |-> << >>, top_repos |-> << >>]]

\* load_metrics (lines 11-13): open() raises FileNotFoundError when
\* data/metrics.json is absent
load_metrics(fs) ==
    IF CanonicalFile \in DOMAIN fs
    THEN [raised |-> FALSE, metrics |-> fs[CanonicalFile]]
    ELSE [raised |-> TRUE, metrics |-> << >>]

\* the summaries of the rendered snapshots
SummaryChoices ==
    { ZeroStats,
      [commits |-> 12, additions |-> 340, deletions |-> 55, files_changed |-> 8],
      [commits |-> 7, additions |-> 45, deletions |-> 90, files_changed |-> 2],
      [commits |-> 1500, additions |-> 12345, deletions |-> 999, files_changed |-> 40] }

Snapshots ==
    [summary   : [PeriodSet -> SummaryChoices],
     daily     : {FiveDates},
     languages : {LangInput(<<2, 1>>), LangInput(<<0>>)},
     top_repos : {<< >>}]

\* a document of an earlier rendering, and a file emptied by open(..., 'w')
OldDoc == [stale |-> TRUE]

EmptiedDoc == [emptied |-> TRUE]

OldOutputs == {EmptyFn, (HtmlFile :> OldDoc) @@ (ReadmeFile :> OldDoc)}

InitRenderMain ==
    /\ \E old \in OldOutputs :
          \/ files = old
          \/ \E snap \in Snapshots : files = old @@ (CanonicalFile :> snap)
    /\ metrics = [daily |-> << >>, languages |-> << >>]
    /\ rpc = "main"
    /\ dates = << >>
    /\ commits_data = << >>
    /\ additions_data = << >>
    /\ deletions_data = << >>
    /\ total_bytes = 0
    /\ lang_data = << >>
    /\ page = NoPage
    /\ GH_TOKEN = "None"
    /\ untilInclusive = TRUE
    /\ GH_USERNAME = "None"
    /\ REPOS_TO_TRACK = << >>
    /\ account = "small"
    /\ clock = Base
    /\ ticks = 0
    /\ faults = 0
    /\ pc = "off"
    /\ now = 0
    /\ periods = EmptyFn
    /\ results = InitialResults(0, "None")
    /\ repos = << >>
    /\ idx = 0
    /\ repo_data = [full_name |-> << >>, periods |-> EmptyFn]
    /\ has_activity = FALSE
    /\ apiCalls = 0
    /\ exitCode = -1
    /\ processed = << >>
    /\ calls = << >>
    /\ runs = << >>
    /\ series = << >>

\* what the renderer's main leaves alone
mainFrame == <<envVars, clock, ticks, faults, pc, now, periods, results, loopVars,
               apiCalls, processed, calls, runs, series, dates, commits_data,
               additions_data, deletions_data, total_bytes, lang_data, page>>

\* main, line 649: metrics = load_metrics()
RenderLoad ==
    /\ rpc = "main"
    /\ IF load_metrics(files).raised
       THEN /\ rpc' = "FileNotFoundError"
            /\ exitCode' = 1
            /\ UNCHANGED metrics
       ELSE /\ metrics' = load_metrics(files).metrics
            /\ rpc' = "write_html"
            /\ UNCHANGED exitCode
    /\ UNCHANGED <<mainFrame, files>>

\* main, lines 651-653: open(..., 'w') empties docs/index.html, then the
\* page is generated and written; a ZeroDivisionError of the generation
\* leaves the emptied file behind
RenderWriteHtml ==
    /\ rpc = "write_html"
    /\ IF metrics.languages # << >> /\ TotalBytes(metrics.languages) = 0
       THEN /\ files' = WriteFile(files, HtmlFile, EmptiedDoc)
            /\ rpc' = "ZeroDivisionError"
            /\ exitCode' = 1
       ELSE /\ files' = WriteFile(files, HtmlFile, generate_html_dashboard(metrics))
            /\ rpc' = "write_readme"
            /\ UNCHANGED exitCode
    /\ UNCHANGED <<mainFrame, metrics>>

\* main, lines 656-660
RenderWriteReadme ==
    /\ rpc = "write_readme"
    /\ files' = WriteFile(files, ReadmeFile, generate_readme(metrics))
    /\ rpc' = "rendered"
    /\ exitCode' = 0
    /\ UNCHANGED <<mainFrame, metrics>>

NextRenderMain ==
    \/ RenderLoad
    \/ RenderWriteHtml
    \/ RenderWriteReadme

SpecRenderMain == InitRenderMain /\ [][NextRenderMain]_vars

\* ------------------------------------------- the generated page's script
\* (n/d).toFixed(1): one digit behind the '.', a tie rounded up
ToFixed1(n, d) ==
    LET t == (20 * n + d) \div (2 * d)
    IN  Digits(t \div 10) \o <<46>> \o <<Digit(t % 10)>>

\* fmt (lines 426-430)
fmt(n) ==
    IF n >= 1000000 THEN ToFixed1(n, 1000000) \o <<77>>
    ELSE IF n >= 1000 THEN ToFixed1(n, 1000) \o <<75>>
    ELSE Str(n)

\* line 412
periodDays == [today |-> 1, week |-> 7, month |-> 30, quarter |-> 90, year |-> 365]

\* the slice taken from the front of the series
getDataForPeriodFromStart(doc, period) ==
    LET days == Min2(periodDays[period], Len(doc.allDates))
    IN  [dates     |-> SubSeq(doc.allDates, 1, days),
         commits   |-> SubSeq(doc.allCommits, 1, days),
         additions |-> SubSeq(doc.allAdditions, 1, days),
         deletions |-> SubSeq(doc.allDeletions, 1, days)]

\* getDataForPeriod (lines 415-424): array.slice(start)
getDataForPeriod(doc, period) ==
    LET days  == Min2(periodDays[period], Len(doc.allDates))
        start == Len(doc.allDates) - days
    IN  [dates     |-> SubSeq(doc.allDates, start + 1, Len(doc.allDates)),
         commits   |-> SubSeq(doc.allCommits, start + 1, Len(doc.allCommits)),
         additions |-> SubSeq(doc.allAdditions, start + 1, Len(doc.allAdditions)),
         deletions |-> SubSeq(doc.allDeletions, start + 1, Len(doc.allDeletions))]

\* updateCharts (lines 574-588): the labels are d.slice(5)
updateCharts(doc, period) ==
    LET data == getDataForPeriod(doc, period)
    IN  [labels    |-> [i \in 1..Len(data.dates) |->
                           SubSeq(data.dates[i], 6, Len(data.dates[i]))] \o << >>,
         commits   |-> data.commits,
         additions |-> data.additions,
         deletions |-> data.deletions]

\* the figures the click handler writes (lines 601-605)
ClickedStats(d) ==
    << Str(d.commits), <<43>> \o fmt(d.additions), <<45>> \o fmt(d.deletions),
       fmt(d.additions - d.deletions) >>

\* the summaries of the snapshots opened in a browser: every period has
\* figures of its own
PageSummary(k) ==
    [p \in PeriodSet |->
        LET w == CHOOSE j \in 1..5 : PeriodNames[j] = p
        IN  [commits       |-> w * k,
             additions     |-> 250 * w * k,
             deletions     |-> 60 * w * w * k,
             files_changed |-> w + k]]

PageSnapshots ==
    [summary   : {PageSummary(k) : k \in 0..5},
     daily     : {DailyInput(BaseDay - 91, n, mode) :
                     n \in {0, 1, 5, 7, 8, 29, 30, 31, 89, 90, MaxDates},
                     mode \in {"asc", "desc"}},
     languages : {LangInput(<<2, 1>>)},
     top_repos : {<< >>}]

InitPage ==
    /\ metrics \in PageSnapshots
    /\ rpc = "browser"
    /\ page = NoPage
    /\ dates = << >>
    /\ commits_data = << >>
    /\ additions_data = << >>
    /\ deletions_data = << >>
    /\ total_bytes = 0
    /\ lang_data = << >>
    /\ GH_TOKEN = "None"
    /\ untilInclusive = TRUE
    /\ GH_USERNAME = "None"
    /\ REPOS_TO_TRACK = << >>
    /\ account = "small"
    /\ clock = Base
    /\ ticks = 0
    /\ faults = 0
    /\ pc = "off"
    /\ now = 0
    /\ periods = EmptyFn
    /\ results = InitialResults(0, "None")
    /\ repos = << >>
    /\ idx = 0
    /\ repo_data = [full_name |-> << >>, periods |-> EmptyFn]
    /\ has_activity = FALSE
    /\ apiCalls = 0
    /\ files = EmptyFn
    /\ exitCode = -1
    /\ processed = << >>
    /\ calls = << >>
    /\ runs = << >>
    /\ series = << >>

\* the page is opened: the markup has the month tab active and the month
\* figures (lines 262-290), the script ends with updateCharts('month')
\* (line 591)
PageLoad ==
    /\ rpc = "browser"
    /\ ~ page.loaded
    /\ \E doc \in {generate_html_dashboard(metrics)} :
          page' = [loaded        |-> TRUE,
                   doc           |-> doc,
                   active        |-> {"month"},
                   stats         |-> doc.stats,
                   chart         |-> updateCharts(doc, "month"),
                   currentPeriod |-> "month"]
    /\ UNCHANGED <<collectVars, metrics, rpc, dates, commits_data, additions_data,
                   deletions_data, total_bytes, lang_data>>

\* tab.onclick (lines 594-609)
ClickTab(tab) ==
    /\ rpc = "browser"
    /\ page.loaded
    /\ page' = [page EXCEPT
                   !.active = (@ \ PeriodSet) \cup {tab},
                   !.stats = ClickedStats(page.doc.periodData[tab]),
                   !.chart = updateCharts(page.doc, tab),
                   !.currentPeriod = tab]
    /\ UNCHANGED <<collectVars, metrics, rpc, dates, commits_data, additions_data,
                   deletions_data, total_bytes, lang_data>>

NextPage ==
    \/ PageLoad
    \/ \E tab \in PeriodSet : ClickTab(tab)

SpecPage == InitPage /\ [][NextPage]_vars

\* ================================================================ claims
\* collect_all_metrics has returned its snapshot
Returned == pc \in {"save", "save_history", "done"}

DetailSum(p, k) ==
    SumSeq([i \in 1..Len(results.repos) |-> results.repos[i].val.periods[p][k]])

\* C1: after collect_all_metrics finishes, every summary field of every
\* period equals the sum of that field over the repositories of the detail
\* mapping, for every working set the enumerator can return.
C1_SummaryIsDetailSum ==
    Returned =>
        \A p \in PeriodSet, k \in StatKeys : results.summary[p][k] = DetailSum(p, k)

\* the loop iterations that processed the repository nm
IterationsOf(nm) == {i \in 1..Len(processed) : processed[i].full_name = nm}

NoCommits(i) == \A p \in PeriodSet : processed[i].periods[p].commits = 0

\* the bytes all iterations reported for the language l
ReportedBytes(l) ==
    SumSeq([i \in 1..Len(processed) |->
               SumSeq([j \in 1..Len(processed[i].languages) |->
                          IF processed[i].languages[j].name = l
                          THEN processed[i].languages[j].bytes ELSE 0])])

ReportedLanguages ==
    UNION {{processed[i].languages[j].name : j \in 1..Len(processed[i].languages)} :
              i \in 1..Len(processed)}

\* C2: a processed repository whose commit count is 0 in all five periods is
\* no key of the detail mapping, a repository with a commit in some period is
\* one, and every (language, bytes) pair reported for a processed repository,
\* active or not, is added to the global language mapping.
C2_InactiveLeftOutLanguagesKept ==
    /\ \A i \in 1..Len(processed) :
          LET nm == processed[i].full_name
          IN  /\ (\A j \in IterationsOf(nm) : NoCommits(j))
                    => nm \notin Keys(results.repos)
              /\ ~ NoCommits(i) => nm \in Keys(results.repos)
    /\ \A l \in ReportedLanguages :
          /\ l \in Keys(results.languages)
          /\ DictGet(results.languages, l) = ReportedBytes(l)
    /\ Keys(results.languages) = ReportedLanguages

C2_Witness ==
    /\ Returned
    /\ \E i, j \in 1..Len(processed) :
          /\ NoCommits(i)
          /\ processed[i].languages # << >>
          /\ processed[i].full_name \notin Keys(results.repos)
          /\ ~ NoCommits(j)
          /\ processed[j].full_name \in Keys(results.repos)

\* the repositories of the detail mapping with a commit in the year period
YearActive ==
    {i \in 1..Len(results.repos) : results.repos[i].val.periods["year"].commits >= 1}

\* C3: top_repos has at most 10 entries, every entry has year commits >= 1,
\* the entries are in non-increasing order of year additions, every entry is
\* a repository of the detail mapping with its year figures, and no
\* repository with year commits >= 1 and more year additions than a listed
\* entry is left out.
C3_TopRepos ==
    Returned =>
        LET top == results.top_repos
        IN  /\ Len(top) <= TopN
            /\ Len(top) = Min2(TopN, Cardinality(YearActive))
            /\ \A i \in 1..Len(top) :
                  /\ top[i].commits >= 1
                  /\ top[i].name \in Keys(results.repos)
                  /\ top[i] = TopEntry(DictGet(results.repos, top[i].name))
            /\ \A i \in 1..(Len(top) - 1) : top[i].additions >= top[i + 1].additions
            /\ \A i, j \in 1..Len(top) : i # j => top[i].name # top[j].name
            /\ \A r \in YearActive :
                  results.repos[r].key \notin {top[i].name : i \in 1..Len(top)}
                     => \A i \in 1..Len(top) :
                           results.repos[r].val.periods["year"].additions
                              <= top[i].additions

C3_Witness ==
    /\ Returned
    /\ Cardinality(YearActive) > TopN
    /\ Len(results.top_repos) = TopN
    /\ \E i, j \in 1..TopN : results.top_repos[i].additions > results.top_repos[j].additions

\* C4: the "today" window passed to the accumulator runs from 00:00 of the
\* calendar day before `now` up to `now`: the query matches a commit of the
\* author exactly when its timestamp lies in that window, so a commit of 23:59
\* of the previous day is inside and one of 23:59 two days earlier is outside.
C4_TodayWindow ==
    calls # << >> =>
        LET since == calls[1].since
            until == calls[1].until
            all   == RemoteCommits(repo_data.full_name)
        IN  /\ since = DayStart(now) - DayLen
            /\ until = now
            /\ since <= DayStart(now) - 1 /\ DayStart(now) - 1 <= until
            /\ ~ (since <= DayStart(now) - DayLen - 1)
            /\ \A i \in 1..Len(all) :
                  all[i].author = GH_USERNAME =>
                     ((all[i] \in Range(calls[1].commits))
                         <=> (DayStart(now) - DayLen <= all[i].ts /\ all[i].ts <= now))

C4_Witness ==
    /\ calls # << >>
    /\ calls[1].fault = NoFault
    /\ \E c \in Range(calls[1].commits) : c.ts = DayStart(now) - 1
    /\ \E c \in Range(RemoteCommits(repo_data.full_name)) :
          /\ c.ts = DayStart(now) - DayLen - 1
          /\ c \notin Range(calls[1].commits)
    /\ calls[1].result.stats.commits = 1
    /\ now > DayStart(now)

\* the sum of the displayed percentages, in tenths of a percent
PercentSum == SumSeq([i \in 1..Len(lang_data) |-> lang_data[i].percent])

\* C5 (as stated): the percentages computed for the displayed top 6
\* languages sum to at most 100.
C5_PercentSumAtMostHundred ==
    rpc = "html" => PercentSum <= 1000

\* C5 (amended): at most 6 languages are displayed, every displayed
\* percentage is the tenth of a percent nearest to bytes/total_bytes*100 with
\* total_bytes the sum over all languages of the mapping, and so the displayed
\* percentages sum to at most 100 plus 0.05 per displayed language, which is
\* at most 100.3.
C5_PercentSumNearHundred ==
    rpc = "html" =>
        /\ Len(lang_data) <= TopLangs
        /\ metrics.languages # << >> =>
              total_bytes = SumSeq([i \in 1..Len(metrics.languages) |->
                                       metrics.languages[i].val])
        /\ \A i \in 1..Len(lang_data) :
              LET e == lang_data[i].percent * total_bytes - 1000 * lang_data[i].bytes
              IN  /\ 2 * e <= total_bytes
                  /\ -total_bytes <= 2 * e
        /\ 2 * PercentSum <= 2000 + Len(lang_data)
        /\ PercentSum <= 1003

C5_Witness ==
    /\ rpc = "html"
    /\ Len(metrics.languages) > TopLangs
    /\ Len(lang_data) = TopLangs
    /\ PercentSum > 1000

\* C6: for every language mapping, empty or not and with byte counts of 0
\* allowed, the percentage computation completes without a division failure,
\* the denominator being the sum of all language bytes, or 1 for the empty
\* mapping.
C6_NoDivisionFailure ==
    /\ rpc # "ZeroDivisionError"
    /\ rpc = "html" =>
          total_bytes = IF metrics.languages = << >> THEN 1
                        ELSE SumSeq([i \in 1..Len(metrics.languages) |->
                                        metrics.languages[i].val])

\* C7: when the access token or the account identifier is absent or empty,
\* main exits with code 1, and in that run no remote API call is issued and no
\* snapshot file is written.
C7_MissingConfigExits ==
    (GH_TOKEN \in {"None", ""} \/ GH_USERNAME \in {"None", ""}) =>
        /\ pc \in {"main", "exited"}
        /\ apiCalls = 0
        /\ files = EmptyFn
        /\ pc = "exited" => exitCode = 1
        /\ pc = "main" => exitCode = -1

C7_Witness ==
    /\ pc = "exited"
    /\ exitCode = 1
    /\ GH_TOKEN = "ghp"
    /\ GH_USERNAME = ""
    /\ apiCalls = 0
    /\ files = EmptyFn

\* C8: with both configuration values present, whatever remote calls fail
\* (the user lookup included), collect_all_metrics does not raise: the run
\* always goes on to the persistence step.
C8_CollectNeverRaises ==
    (GH_TOKEN \notin {"None", ""} /\ GH_USERNAME \notin {"None", ""}) => pc # "raised"

\* the stats of the first k commits, fully processed
PrefixStats(commits, k) ==
    [commits       |-> k,
     additions     |-> SumSeq([i \in 1..k |-> IF commits[i].hasStats
                                             THEN commits[i].additions ELSE 0]),
     deletions     |-> SumSeq([i \in 1..k |-> IF commits[i].hasStats
                                             THEN commits[i].deletions ELSE 0]),
     files_changed |-> SumSeq([i \in 1..k |-> commits[i].files])]

\* C9: get_commit_stats never raises; a query that fails before yielding a
\* commit gives the all-zero stats; a failure after k fully processed commits
\* gives the stats accumulated up to the failure point: every field is a
\* non-negative integer, commits >= k, and every field lies between its value
\* after k and after k+1 commits; without a failure the stats are those of
\* all matched commits.
C9_CommitStatsNeverRaises ==
    \A j \in 1..Len(calls) :
        LET c  == calls[j]
            st == c.result.stats
            k  == c.fault.k
        IN  /\ ~ c.result.raised
            /\ \A f \in StatKeys : st[f] \in Nat
            /\ (c.fault.stage = "query" /\ k = 0) => st = ZeroStats
            /\ c.fault.stage = "query" => st = PrefixStats(c.commits, k)
            /\ c.fault.stage = "none" => st = PrefixStats(c.commits, Len(c.commits))
            /\ c.fault.stage \in {"stats", "files"} =>
                  /\ st.commits >= k
                  /\ \A f \in StatKeys :
                        /\ PrefixStats(c.commits, k)[f] <= st[f]
                        /\ st[f] <= PrefixStats(c.commits, k + 1)[f]

C9_Witness ==
    \E j \in 1..Len(calls) :
        /\ calls[j].fault.stage = "query"
        /\ calls[j].fault.k = 1
        /\ Len(calls[j].commits) = 2
        /\ calls[j].result.stats.commits = 1
        /\ calls[j].result.stats.additions > 0
        /\ ~ calls[j].result.raised

\* the keys of the rendered daily mapping
DailyKeys == {metrics.daily[i].key : i \in 1..Len(metrics.daily)}

\* C10: for a daily mapping of n dates the chart's date list holds exactly
\* the min(n, 90) lexicographically greatest keys in ascending order, every
\* listed date is a key of the mapping, and the three series hold the listed
\* date's bucket values at the same index.
C10_ChartDates ==
    rpc # "start" =>
        /\ Len(dates) = Min2(Len(metrics.daily), ChartDays)
        /\ \A i \in 1..Len(dates) : dates[i] \in DailyKeys
        /\ \A i \in 1..(Len(dates) - 1) : StrLess(dates[i], dates[i + 1])
        /\ \A k \in DailyKeys \ Range(dates) : StrLess(k, dates[1])
        /\ Len(commits_data) = Len(dates)
        /\ Len(additions_data) = Len(dates)
        /\ Len(deletions_data) = Len(dates)
        /\ \A i \in 1..Len(dates) :
              LET bucket == DictGet(metrics.daily, dates[i])
              IN  /\ commits_data[i] = bucket.commits
                  /\ additions_data[i] = bucket.additions
                  /\ deletions_data[i] = bucket.deletions

C10_Witness ==
    /\ rpc # "start"
    /\ Len(metrics.daily) > ChartDays
    /\ Len(dates) = ChartDays
    /\ StrLess(metrics.daily[2].key, metrics.daily[1].key)
    /\ dates[ChartDays] = metrics.daily[1].key
    /\ \E i \in 1..ChartDays : commits_data[i] > 0

\* get_repos_to_track has returned
Enumerated == pc \in {"repo", "daily", "langs", "save", "save_history", "done"}

\* the elements of s at their first occurrence, in the order of s
FirstOccurrences(s) ==
    LET I == {i \in 1..Len(s) : \A j \in 1..(i - 1) : s[j] # s[i]}
    IN  [k \in 1..Cardinality(I) |->
            s[CHOOSE i \in I : Cardinality({j \in I : j < i}) = k - 1]]

\* C11: in discovery mode the working set never holds one full identifier
\* twice: it is the items the two listings yielded, account listing first,
\* each kept once at the position of its first occurrence; with both listings
\* complete, a repository both listings return stands once, where the account
\* listing put it.
C11_DiscoveryDeduplicates ==
    (Enumerated /\ REPOS_TO_TRACK = << >>) =>
        /\ \A i, j \in 1..Len(repos) : i # j => repos[i] # repos[j]
        /\ \E ka \in 0..Len(AuthListing(account)), ko \in 0..Len(OrgListing(account)) :
              repos = FirstOccurrences(SubSeq(AuthListing(account), 1, ka)
                                       \o SubSeq(OrgListing(account), 1, ko))
        /\ faults = MaxFaults =>
              repos = FirstOccurrences(AuthListing(account) \o OrgListing(account))

C11_Witness ==
    /\ Enumerated
    /\ REPOS_TO_TRACK = << >>
    /\ faults = MaxFaults
    /\ \E i \in 1..Len(AuthListing(account)), j \in 1..Len(OrgListing(account)) :
          /\ AuthListing(account)[i] = OrgListing(account)[j]
          /\ repos[i] = AuthListing(account)[i]
          /\ Len(repos) = Len(AuthListing(account)) + Len(OrgListing(account)) - 1

\* the name of the dated file of the calendar date of run i
RunFile(i) == <<"data/metrics-", StrfDate(runs[i].now), ".json">>

\* the last finished run of the calendar date of run i
LastRunOfDate(i) ==
    CHOOSE j \in 1..Len(runs) :
        /\ RunFile(j) = RunFile(i)
        /\ \A k \in 1..Len(runs) : RunFile(k) = RunFile(i) => k <= j

\* C12: after any sequence of successful runs the canonical file holds the
\* snapshot of the most recent run, every calendar date on which a run
\* happened has its dated file, holding the snapshot of the last run of that
\* date, and there is no other file (so a run leaves the dated files of other
\* dates as they were).
C12_FilesHoldLatestRuns ==
    (pc = "done" /\ runs # << >>) =>
        /\ CanonicalFile \in DOMAIN files
        /\ files[CanonicalFile] = runs[Len(runs)].results
        /\ \A i \in 1..Len(runs) :
              /\ RunFile(i) \in DOMAIN files
              /\ files[RunFile(i)] = runs[LastRunOfDate(i)].results
        /\ DOMAIN files = {CanonicalFile} \cup {RunFile(i) : i \in 1..Len(runs)}

\* C13: when data/metrics.json is absent, the renderer's main stops with an
\* error, and docs/index.html and README.md are neither created nor
\* modified: each is absent or still the document of the earlier rendering.
C13_MissingSnapshotStops ==
    CanonicalFile \notin DOMAIN files =>
        /\ rpc \in {"main", "FileNotFoundError"}
        /\ rpc = "FileNotFoundError" => exitCode = 1
        /\ \A f \in {HtmlFile, ReadmeFile} : f \in DOMAIN files => files[f] = OldDoc
        /\ files \in OldOutputs

C13_Witness ==
    /\ CanonicalFile \notin DOMAIN files
    /\ rpc = "FileNotFoundError"
    /\ exitCode = 1
    /\ files = (HtmlFile :> OldDoc) @@ (ReadmeFile :> OldDoc)

RECURSIVE Pow10(_)
Pow10(k) == IF k = 0 THEN 1 ELSE 10 * Pow10(k - 1)

\* the string s is the plain decimal numeral of the integer n
IsPlainInt(s, n) ==
    LET body == IF n < 0 THEN Tail(s) ELSE s
        a    == IF n < 0 THEN -n ELSE n
    IN  /\ s # << >>
        /\ n < 0 => s[1] = 45
        /\ body # << >>
        /\ \A i \in 1..Len(body) : body[i] \in 48..57
        /\ Len(body) > 1 => body[1] # 48
        /\ SumSeq([i \in 1..Len(body) |-> (body[i] - 48) * Pow10(Len(body) - i)]) = a

\* the cells of the row of period p of the written README.md
WrittenRow(p) == files[ReadmeFile].rows[p]

\* C15: for each of today, week, month and year the markdown row has the
\* cells <commits>, +<additions>, -<deletions>, <additions - deletions>, a
\* value below 1000 being printed as its plain decimal numeral; for
\* summary.month = {commits 12, additions 340, deletions 55, files_changed 8}
\* the Month row is | 12 | +340 | -55 | 285 |.
C15_MarkdownRows ==
    rpc = "rendered" =>
        \A p \in ReadmePeriods :
            LET s   == metrics.summary[p]
                row == WrittenRow(p)
                net == s.additions - s.deletions
            IN  /\ Len(row) = 4
                /\ s.commits < 1000 => IsPlainInt(row[1], s.commits)
                /\ s.additions < 1000 =>
                      row[2][1] = 43 /\ IsPlainInt(Tail(row[2]), s.additions)
                /\ s.deletions < 1000 =>
                      row[3][1] = 45 /\ IsPlainInt(Tail(row[3]), s.deletions)
                /\ net < 1000 => IsPlainInt(row[4], net)
                /\ (p = "month" /\ s = [commits |-> 12, additions |-> 340,
                                        deletions |-> 55, files_changed |-> 8])
                      => row = << <<49, 50>>, <<43, 51, 52, 48>>, <<45, 53, 53>>,
                                  <<50, 56, 53>> >>

C15_Witness ==
    /\ rpc = "rendered"
    /\ metrics.summary["month"] = [commits |-> 12, additions |-> 340,
                                   deletions |-> 55, files_changed |-> 8]
    /\ WrittenRow("month") = << <<49, 50>>, <<43, 51, 52, 48>>, <<45, 53, 53>>,
                                <<50, 56, 53>> >>
    /\ metrics.summary["today"].additions < metrics.summary["today"].deletions
    /\ metrics.summary["year"].additions >= 1000

\* the number the decimal digits of s stand for
DecimalValue(s) == SumSeq([i \in 1..Len(s) |-> (s[i] - 48) * Pow10(Len(s) - i)])

\* the text shows the value v: its plain numeral below 1000, else the
\* thousands ('K', 75) or millions ('M', 77) with one decimal, off by at most
\* half a tenth
Shows(text, v) ==
    IF v < 1000 THEN IsPlainInt(text, v)
    ELSE LET unit   == IF v >= 1000000 THEN 1000000 ELSE 1000
             suffix == IF v >= 1000000 THEN 77 ELSE 75
             n      == Len(text)
         IN  /\ n >= 4
             /\ text[n] = suffix
             /\ text[n - 2] = 46
             /\ \A i \in (1..(n - 3)) \cup {n - 1} : text[i] \in 48..57
             /\ LET t == 10 * DecimalValue(SubSeq(text, 1, n - 3)) + (text[n - 1] - 48)
                    e == t * unit - 10 * v
                IN  2 * e <= unit /\ -unit <= 2 * e

\* the days a tab stands for
TabDays(p) ==
    CASE p = "today" -> 1 [] p = "week" -> 7 [] p = "month" -> 30
      [] p = "quarter" -> 90 [] OTHER -> 365

\* C14: in the opened page, at load and after any clicks on the period tabs,
\* exactly one tab is active, the four displayed figures show the commits,
\* additions, deletions and additions - deletions of the snapshot's summary of
\* the active tab's period, and the charts hold the last min(D, n) entries of
\* the embedded n-entry series, D being 1, 7, 30, 90, 365 for today, week,
\* month, quarter, year.
C14_TabsShowSummary ==
    page.loaded =>
        /\ page.active \subseteq PeriodSet
        /\ Cardinality(page.active) = 1
        /\ LET p == CHOOSE q \in page.active : TRUE
               d == metrics.summary[p]
               n == Len(page.doc.allDates)
               k == Min2(TabDays(p), n)
           IN  /\ IsPlainInt(page.stats[1], d.commits)
               /\ page.stats[2][1] = 43 /\ Shows(Tail(page.stats[2]), d.additions)
               /\ page.stats[3][1] = 45 /\ Shows(Tail(page.stats[3]), d.deletions)
               /\ Shows(page.stats[4], d.additions - d.deletions)
               /\ n = Min2(Len(metrics.daily), ChartDays)
               /\ Len(page.chart.labels) = k
               /\ Len(page.chart.commits) = k
               /\ Len(page.chart.additions) = k
               /\ Len(page.chart.deletions) = k
               /\ \A i \in 1..k :
                     /\ page.chart.labels[i] = SubSeq(page.doc.allDates[n - k + i], 6, 10)
                     /\ page.chart.commits[i] = page.doc.allCommits[n - k + i]
                     /\ page.chart.additions[i] = page.doc.allAdditions[n - k + i]
                     /\ page.chart.deletions[i] = page.doc.allDeletions[n - k + i]

C14_Witness ==
    /\ page.loaded
    /\ page.active = {"week"}
    /\ Len(page.doc.allDates) = ChartDays
    /\ Len(page.chart.commits) = 7
    /\ page.chart.labels[7] = SubSeq(page.doc.allDates[ChartDays], 6, 10)
    /\ metrics.summary["week"].additions >= 1000
    /\ metrics.summary["week"].commits # SumSeq(page.chart.commits)
    /\ page.stats # page.doc.stats

\* the daily series get_daily_stats returned for the repository nm
LoggedEntries(nm) ==
    LET I == {i \in 1..Len(series) : series[i].full_name = nm}
    IN  IF I = {} THEN << >>
        ELSE series[CHOOSE i \in I : \A j \in I : i <= j].entries

\* an entry that adds something to a bucket
Contributing(e) == e.commits # 0 \/ e.additions # 0 \/ e.deletions # 0

\* C16: after collect_all_metrics finishes, the daily bucket of every date
\* holds, field by field, the sum of the entries of that date of the daily
\* series of the repositories of the detail mapping (the buckets exist for
\* the dates of those series only), and get_daily_stats was called once for
\* every processed repository with a commit in some period and for no other.
C16_DailyBucketsAreSeriesSums ==
    Returned =>
        \E nz \in {[i \in 1..Len(results.repos) |->
                       SelectSeq(LoggedEntries(results.repos[i].key), Contributing)]
                   \o << >>} :
            /\ DOMAIN results.daily =
                  UNION {{LoggedEntries(results.repos[i].key)[j].date :
                             j \in 1..Len(LoggedEntries(results.repos[i].key))} :
                         i \in 1..Len(results.repos)}
            /\ \A d \in DOMAIN results.daily :
                  \A f \in {"commits", "additions", "deletions"} :
                     results.daily[d][f] =
                        SumSeq([i \in 1..Len(nz) |->
                                   SumSeq([j \in 1..Len(nz[i]) |->
                                              IF nz[i][j].date = d
                                              THEN nz[i][j][f] ELSE 0])])
            /\ \A k \in 1..Len(series) :
                  \E i \in 1..Len(processed) :
                     processed[i].full_name = series[k].full_name /\ ~ NoCommits(i)
            /\ Len(series) = Cardinality({i \in 1..Len(processed) : ~ NoCommits(i)})

\* the author's commits of a repository stamped within [from, from + 24h)
CommitsOfDay(full_name, who, from) ==
    SelectSeq(RemoteCommits(full_name),
              LAMBDA c : c.author = who /\ from <= c.ts /\ c.ts < from + DayLen)

\* what C17 says of one call of get_daily_stats, logged as s
DailySeriesOk(s) ==
    /\ Len(s.entries) = s.days + 1
    /\ \A j \in 1..Len(s.entries) :
          s.entries[j].date = StrfDate(DayStart(s.t - (s.days + 1 - j) * DayLen))
    /\ \A j \in 1..(Len(s.entries) - 1) :
          StrLess(s.entries[j].date, s.entries[j + 1].date)
    /\ s.entries[Len(s.entries)].date = StrfDate(s.t)
    /\ \A j \in 1..Len(s.entries) :
          (s.days + 1 - j) \notin s.faulty =>
             \E w \in {CommitsOfDay(s.full_name, GH_USERNAME,
                                    DayStart(s.t - (s.days + 1 - j) * DayLen))} :
                \E st \in {PrefixStats(w, Len(w))} :
                   /\ s.entries[j].commits = st.commits
                   /\ s.entries[j].additions = st.additions
                   /\ s.entries[j].deletions = st.deletions
                   /\ s.entries[j].files_changed = st.files_changed

DetailPlace(nm) == CHOOSE i \in 1..Len(results.repos) : results.repos[i].key = nm

\* C18: in top_repos, repositories with equal year additions stand in the
\* order in which the detail mapping iterates them, and a repository left
\* out by the cut to 10 comes later in the mapping than every listed
\* repository with the same year additions.
C18_TiesKeepMappingOrder ==
    Returned =>
        LET top == results.top_repos
        IN  /\ \A i, j \in 1..Len(top) :
                  (i < j /\ top[i].additions = top[j].additions)
                     => DetailPlace(top[i].name) < DetailPlace(top[j].name)
            /\ \A r \in YearActive :
                  results.repos[r].key \notin {top[i].name : i \in 1..Len(top)}
                     => \A i \in 1..Len(top) :
                           top[i].additions
                              = results.repos[r].val.periods["year"].additions
                                 => DetailPlace(top[i].name) < r

C18_Witness ==
    /\ Returned
    /\ Len(results.top_repos) = TopN
    /\ \E i, j \in 1..TopN :
          /\ i < j
          /\ results.top_repos[i].additions = results.top_repos[j].additions
    /\ \E r \in YearActive :
          /\ results.repos[r].key \notin {results.top_repos[i].name : i \in 1..TopN}
          /\ results.repos[r].val.periods["year"].additions
                = results.top_repos[TopN].additions

====
